---- MODULE Spec2Model ----
(***************************************************************************)
(* Model of src/main.py: the dispatcher (main), the worker pool of the     *)
(* ThreadPoolExecutor, and the per-folder job combine_audio_video with its *)
(* duration probe (get_duration) and its encode run                        *)
(* (run_ffmpeg_with_progress).                                             *)
(*                                                                         *)
(* Texts (file names, process output) are sequences of tokens; a token is  *)
(* a string.  Times are held in microseconds, so int(x) / 1_000_000        *)
(* seconds is the integer x and the float literal "3.000000" is 3000000.   *)
(***************************************************************************)
EXTENDS Integers, Sequences, FiniteSets, TLC

\* ------------------------------------------------------------------ bounds
\* The largest number of subfolders of PARENT_DIR.
MaxFolders == 2

\* The number of lines the pipe of ffmpeg's standard output holds.
PipeCapacity == 1

\* ThreadPoolExecutor(max_workers=2)
max_workers == 2

\* Python's None, for the values that are texts or wrapped: a value v that may be
\* None is held as <<v>>, and None as <<>>.
None == <<>>
Some(v) == <<v>>
value(o) == o[1]

\* No external process.
NoProcess == "none"

\* ------------------------------------------------------------------- texts
Whitespace == {" ", "\n"}

RECURSIVE lstrip(_)
lstrip(s) == IF s # <<>> /\ Head(s) \in Whitespace THEN lstrip(Tail(s)) ELSE s

RECURSIVE rstrip(_)
rstrip(s) ==
    IF s # <<>> /\ s[Len(s)] \in Whitespace THEN rstrip(SubSeq(s, 1, Len(s) - 1)) ELSE s

\* str.strip()
strip(s) == rstrip(lstrip(s))

\* str.startswith(prefix)
startswith(s, prefix) ==
    Len(s) >= Len(prefix) /\ SubSeq(s, 1, Len(prefix)) = prefix

\* str.endswith(suffix)
endswith(s, suffix) ==
    Len(s) >= Len(suffix) /\ SubSeq(s, Len(s) - Len(suffix) + 1, Len(s)) = suffix

\* sub in s
contains(s, sub) ==
    \E i \in 1..(Len(s) - Len(sub) + 1) : SubSeq(s, i, i + Len(sub) - 1) = sub

\* str.lower(), on the tokens file names are made of
lowerToken(t) ==
    CASE t = "VIDEO" -> "video"
      [] t = "Audio" -> "audio"
      [] t = ".MP4"  -> ".mp4"
      [] OTHER       -> t

lower(s) == [i \in 1..Len(s) |-> lowerToken(s[i])]

\* s.split("=")[1]: the text between the first "=" and the next one (or the end);
\* None when there is no "=" (IndexError cannot happen after startswith("out_time_ms=")).
RECURSIVE upto_eq(_)
upto_eq(s) == IF s = <<>> \/ Head(s) = "=" THEN <<>> ELSE <<Head(s)>> \o upto_eq(Tail(s))

RECURSIVE after_eq(_)
after_eq(s) == IF s = <<>> THEN <<>> ELSE IF Head(s) = "=" THEN Tail(s) ELSE after_eq(Tail(s))

split_eq_1(s) == upto_eq(after_eq(s))

\* int(): the integer literals the encode process emits; anything else is a ValueError.
IntLiterals == {"-1000000", "1000000", "5000000"}

intValue(t) ==
    CASE t = "-1000000" -> -1000000
      [] t = "1000000"  -> 1000000
      [] t = "5000000"  -> 5000000

\* int(s) accepts surrounding whitespace around one literal
is_int(s) == Len(strip(s)) = 1 /\ strip(s)[1] \in IntLiterals
int(s) == intValue(strip(s)[1])

\* float(): the literals the probe prints, in microseconds; anything else is a ValueError.
FloatLiterals == {"0.000000", "3.000000"}

floatValue(t) ==
    CASE t = "0.000000" -> 0
      [] t = "3.000000" -> 3000000

is_float(s) == Len(strip(s)) = 1 /\ strip(s)[1] \in FloatLiterals
float(s) == floatValue(strip(s)[1])

min(a, b) == IF a <= b THEN a ELSE b

\* ------------------------------------------------------------ the inputs
\* What os.listdir(folder_path) may return for a work folder.
Listings ==
    { << <<"video", "1", ".mp4">>, <<"audio", "1", ".mp4">> >>,
      << <<"clip_", "VIDEO", ".MP4">> >>,
      << <<"video", ".mkv">>, <<"Audio", "1", ".mp4">> >> }

\* os.path.basename(folder_path): the names of the subfolders of PARENT_DIR.
folder_name(f) ==
    CASE f = 1 -> <<"holiday_", "video", "s">>
      [] f = 2 -> <<"B">>
      [] OTHER -> <<"audio", "book", ToString(f)>>

\* f"{folder_name}_combined.mp4"
output_name(f) == folder_name(f) \o <<"_combined", ".mp4">>

\* What the ffprobe run may do: it cannot be started (OSError), or it exits
\* with a code after printing its standard output.
ProbeRuns ==
    { [started |-> FALSE, returncode |-> 0, stdout |-> <<>>],
      [started |-> TRUE, returncode |-> 1, stdout |-> <<"3.000000", "\n">>],
      [started |-> TRUE, returncode |-> 0, stdout |-> <<>>],
      [started |-> TRUE, returncode |-> 0, stdout |-> <<"N/A", "\n">>],
      [started |-> TRUE, returncode |-> 0, stdout |-> <<"0.000000", "\n">>],
      [started |-> TRUE, returncode |-> 0, stdout |-> <<"3.000000", "\n">>] }

\* What process.stdout.readline() may return; <<>> is '' (end of stream).
ProgressLines ==
    { <<"out_time_ms", "=", "1000000", "\n">>,
      <<"out_time_ms", "=", "5000000", "\n">>,
      <<"out_time_ms", "=", "-1000000", "\n">>,
      <<"out_time_ms", "=", "N/A", "\n">>,
      <<"speed", "=", "1.5x", "\n">>,
      <<"progress", "=", "continue", "\n">>,
      <<"progress", "=", "end", "\n">>,
      <<>> }

\* The exit codes of the ffmpeg process.
ExitCodes == {0, 1}

\* ------------------------------------------------------------- the state
VARIABLES
    subfolders,  \* the number of subfolders of PARENT_DIR
    pc,          \* where main() is
    log,         \* the lines of LOG_FILE, each with the thread that wrote it
    console,     \* the messages print() wrote
    folders,     \* main's list of discovered folders
    futures,     \* main's dict of submitted futures (by folder)
    finished,    \* as_completed: the futures found finished when it was called
    waiter,      \* as_completed: the futures finished since, in completion order
    yielded,     \* the futures as_completed has yielded
    results,     \* main's list of results
    state,       \* per folder: the state of its future / where its worker is
    outcome,     \* per folder: the value of its finished future
    files,       \* per folder: combine_audio_video's files
    result,      \* per folder: the ffprobe run get_duration is waiting for
    duration,    \* per folder: combine_audio_video's duration
    bar,         \* per folder: bar.n of run_ffmpeg_with_progress
    line,        \* per folder: run_ffmpeg_with_progress's line, the last one read
    out_time,    \* per folder: run_ffmpeg_with_progress's out_time
    returncode,  \* per folder: process.returncode
    alive,       \* per folder: the external process alive for it
    output,      \* per folder: the file at output_file, "absent" when there is none
    pipe,        \* per folder: the lines in the pipe of process.stdout that
                 \* ffmpeg wrote after the read loop ended
    writing,     \* per folder: ffmpeg is blocked in a write to the full pipe
    probes,      \* per folder: the number of ffprobe runs
    encodes,     \* per folder: the number of ffmpeg launches
    completed    \* the finished futures main has not been handed yet, in the
                 \* order they finished

vars == <<subfolders, pc, log, console, folders, futures, finished, waiter, yielded, results,
          state, outcome, files, result, duration, bar, line, out_time, returncode,
          alive, output, pipe, writing, probes, encodes, completed>>

jobvars == <<state, outcome, files, result, duration, bar, line, out_time,
             returncode, alive, output, pipe, writing, probes, encodes, completed>>

\* The folders of a run: up to MaxFolders, or one more than the pool has workers.
AllFolders == 1..(IF MaxFolders > max_workers + 1 THEN MaxFolders ELSE max_workers + 1)

\* The exception of a future whose job raised, and the value of an unfinished one.
Raised(f)   == [tag |-> "raised", folder |-> f]
NoResult(f) == [tag |-> "none", folder |-> f]

\* The strings combine_audio_video returns.
Skipped(f)        == [tag |-> "Skipped", folder |-> f]
FailedDuration(f) == [tag |-> "FailedDuration", folder |-> f]
Combined(f)       == [tag |-> "Combined", folder |-> f]
FailedIn(f)       == [tag |-> "FailedIn", folder |-> f]

\* The lines of the log.
Line(thread, msg) == [thread |-> thread, msg |-> msg]
StartBanner == [tag |-> "started"]
Found(n)    == [tag |-> "Found", n |-> n]
AllDone     == [tag |-> "AllDone"]
Stale       == [tag |-> "stale"]

\* The state main() starts in, whatever the disk holds.
Started ==
    /\ pc = "open"
    /\ console = <<>>
    /\ folders = <<>>
    /\ futures = {}
    /\ finished = {}
    /\ waiter = <<>>
    /\ yielded = {}
    /\ results = <<>>
    /\ state = [f \in AllFolders |-> "none"]
    /\ outcome = [f \in AllFolders |-> NoResult(f)]
    /\ files = [f \in AllFolders |-> None]
    /\ result = [f \in AllFolders |-> None]
    /\ duration = [f \in AllFolders |-> None]
    /\ bar = [f \in AllFolders |-> None]
    /\ line = [f \in AllFolders |-> None]
    /\ out_time = [f \in AllFolders |-> None]
    /\ returncode = [f \in AllFolders |-> None]
    /\ alive = [f \in AllFolders |-> NoProcess]
    /\ pipe = [f \in AllFolders |-> 0]
    /\ writing = [f \in AllFolders |-> FALSE]
    /\ probes = [f \in AllFolders |-> 0]
    /\ encodes = [f \in AllFolders |-> 0]
    /\ completed = <<>>

\* The state main() starts in when no work folder holds a combined file:
\* LOG_FILE is absent, or left by a run of which nothing else is known.
Boot ==
    /\ log \in {<<>>, <<Line("previous run", Stale), Line("previous run", AllDone)>>}
    /\ output = [f \in AllFolders |-> "absent"]
    /\ Started

\* PARENT_DIR holds up to MaxFolders subfolders.
Init == subfolders \in 0..MaxFolders /\ Boot

\* PARENT_DIR holds one subfolder more than the pool has workers.
InitPool == subfolders = max_workers + 1 /\ Boot

\* The log a run leaves that combined every one of n folders.
RECURSIVE CombinedLines(_)
CombinedLines(n) ==
    IF n = 0 THEN <<>> ELSE Append(CombinedLines(n - 1), Line("previous run", Combined(n)))

PreviousLog(n) ==
    <<Line("previous run", StartBanner), Line("previous run", Found(n))>>
        \o CombinedLines(n) \o <<Line("previous run", AllDone)>>

\* A second run: an earlier run over the same folders combined every one of
\* them, and left its log and its combined files.
InitRerun ==
    /\ subfolders \in 1..MaxFolders
    /\ log = PreviousLog(subfolders)
    /\ output = [f \in AllFolders |-> IF f <= subfolders THEN "previous" ELSE "absent"]
    /\ Started

\* ------------------------------------------------------------ the logger
\* log_message(msg), called by thread: append the line, then print it.
log_message(thread, msg) ==
    /\ log' = Append(log, Line(thread, msg))
    /\ console' = Append(console, msg)

\* --------------------------------------------------------- the dispatcher
\* (a slip: the log opened with "a")
main_open_append ==
    /\ pc = "open"
    /\ log' = Append(log, Line("main", StartBanner))
    /\ pc' = "listdir"
    /\ UNCHANGED <<subfolders, console, folders, futures, finished, waiter, yielded, results>>
    /\ UNCHANGED jobvars

\* with open(LOG_FILE, "w") as log: log.write(started banner)
main_open ==
    /\ pc = "open"
    /\ log' = <<Line("main", StartBanner)>>
    /\ pc' = "listdir"
    /\ UNCHANGED <<subfolders, console, folders, futures, finished, waiter, yielded, results>>
    /\ UNCHANGED jobvars

\* folders = [... for d in os.listdir(PARENT_DIR) if os.path.isdir(...)]
main_listdir ==
    /\ pc = "listdir"
    /\ folders' = [i \in 1..subfolders |-> i]
    /\ pc' = "found"
    /\ UNCHANGED <<subfolders, log, console, futures, finished, waiter, yielded, results>>
    /\ UNCHANGED jobvars

\* log_message(f"Found {len(folders)} folders to process.\n")
main_found ==
    /\ pc = "found"
    /\ log_message("main", Found(Len(folders)))
    /\ pc' = "submit"
    /\ UNCHANGED <<subfolders, folders, futures, finished, waiter, yielded, results>>
    /\ UNCHANGED jobvars

\* executor.submit(combine_audio_video, folder), one folder of the comprehension
main_submit ==
    /\ pc = "submit"
    /\ Cardinality(futures) < Len(folders)
    /\ LET f == folders[Cardinality(futures) + 1] IN
         /\ futures' = futures \cup {f}
         /\ state' = [state EXCEPT ![f] = "PENDING"]
    /\ UNCHANGED <<subfolders, pc, log, console, folders, finished, waiter, yielded, results>>
    /\ UNCHANGED <<outcome, files, result, duration, bar, line, out_time, returncode,
                   alive, output, pipe, writing, probes, encodes, completed>>

\* as_completed(futures), entered once every folder is submitted: the futures
\* already finished are set aside, a waiter is installed on the others.
main_as_completed ==
    /\ pc = "submit"
    /\ Cardinality(futures) = Len(folders)
    /\ finished' = {f \in futures : state[f] = "FINISHED"}
    /\ waiter' = <<>>
    /\ pc' = "collect"
    /\ UNCHANGED <<subfolders, log, console, folders, futures, yielded, results>>
    /\ UNCHANGED jobvars

\* (a slip: the futures are iterated as submitted, finished or not)
any_submitted == futures \ yielded

\* (a slip: the newest finished future first)
newest_completed ==
    IF finished # {} THEN finished
    ELSE IF waiter # <<>> THEN {waiter[Len(waiter)]}
    ELSE {}

\* The futures as_completed may yield next: first those found finished when it
\* was called (it holds them in a set: any order), then the head of the waiter's
\* list, which is in completion order.
next_completed ==
    IF finished # {} THEN finished
    ELSE IF waiter # <<>> THEN {Head(waiter)}
    ELSE {}

\* One turn of the loop over as_completed(futures):
\*   result = future.result(); log_message(result); results.append(result)
\* future.result() re-raises the exception of a job that raised.
main_collect ==
    /\ pc = "collect"
    /\ \E f \in next_completed :
         /\ finished' = finished \ {f}
         /\ waiter' = SelectSeq(waiter, LAMBDA g : g # f)
         /\ yielded' = yielded \cup {f}
         /\ completed' = SelectSeq(completed, LAMBDA g : g # f)
         /\ IF outcome[f] = Raised(f)
              THEN /\ pc' = "unwind"
                   /\ UNCHANGED <<log, console, results>>
              ELSE /\ log_message("main", outcome[f])
                   /\ results' = Append(results, outcome[f])
                   /\ pc' = pc
    /\ UNCHANGED <<subfolders, folders, futures>>
    /\ UNCHANGED <<state, outcome, files, result, duration, bar, line, out_time,
                   returncode, alive, output, pipe, writing, probes, encodes>>

\* Every future was yielded: the loop ends and the with block is left
\* (executor.shutdown(wait=True)).
main_exit_pool ==
    /\ pc = "collect"
    /\ yielded = futures
    /\ \A f \in futures : state[f] = "FINISHED"
    /\ pc' = "banner"
    /\ UNCHANGED <<subfolders, log, console, folders, futures, finished, waiter, yielded, results>>
    /\ UNCHANGED jobvars

\* An exception leaves the with block: shutdown(wait=True) still waits for every
\* submitted job, then the exception leaves main().
main_unwind ==
    /\ pc = "unwind"
    /\ \A f \in futures : state[f] = "FINISHED"
    /\ pc' = "crashed"
    /\ UNCHANGED <<subfolders, log, console, folders, futures, finished, waiter, yielded, results>>
    /\ UNCHANGED jobvars

\* log_message(f"\nAll done at {datetime.now()}.")
main_banner ==
    /\ pc = "banner"
    /\ log_message("main", AllDone)
    /\ pc' = "done"
    /\ UNCHANGED <<subfolders, folders, futures, finished, waiter, yielded, results>>
    /\ UNCHANGED jobvars

\* ------------------------------------------------------------ the selector
\* next((f for f in files if token in f.lower() and f.lower().endswith(".mp4")), None)
matches(name, token) == contains(lower(name), <<token>>) /\ endswith(lower(name), <<".mp4">>)

first_match(listing, token) ==
    IF \E i \in 1..Len(listing) : matches(listing[i], token)
      THEN listing[CHOOSE i \in 1..Len(listing) :
                     /\ matches(listing[i], token)
                     /\ \A j \in 1..(i - 1) : ~matches(listing[j], token)]
      ELSE None

video_file(listing) == first_match(listing, "video")
audio_file(listing) == first_match(listing, "audio")

\* os.listdir(folder_path): every entry of the folder, in any order; a combined
\* file on the disk is one of them.
listdir(f) ==
    IF output[f] = "absent" THEN Listings
    ELSE {<<output_name(f)>> \o l : l \in Listings} \cup {l \o <<output_name(f)>> : l \in Listings}

\* os.path.join(folder_path, name): the paths of combine_audio_video, once
\* files is read.
join(f, name) == <<f, name>>
input_video(f) == join(f, video_file(value(files[f])))
input_audio(f) == join(f, audio_file(value(files[f])))
output_file(f) == join(f, output_name(f))

\* (a slip: "and" for "or")
missing_both_inputs(listing) == video_file(listing) = None /\ audio_file(listing) = None

\* if not video_file or not audio_file
missing_input(listing) == video_file(listing) = None \/ audio_file(listing) = None

\* --------------------------------------------------------------- the probe
\* (a slip: subprocess.run without check=True)
get_duration_unchecked(run) ==
    IF ~run.started THEN None
    ELSE IF ~is_float(run.stdout) THEN None
    ELSE Some(float(run.stdout))

\* get_duration: subprocess.run(..., check=True) and float(stdout.strip()),
\* every exception caught and turned into None.
get_duration(run) ==
    IF ~run.started THEN None
    ELSE IF run.returncode # 0 THEN None
    ELSE IF ~is_float(run.stdout) THEN None
    ELSE Some(float(run.stdout))

\* (a slip: the check of the duration left out)
duration_unchecked(d) == FALSE

\* if not duration: None and 0.0 are both false
not_duration(d) == d = None \/ value(d) = 0

\* ---------------------------------------------------------------- the pool
running == {f \in AllFolders : state[f] \in {"probe", "read", "wait"}}

\* Future.set_result / set_exception: the future is finished and the waiter of
\* as_completed, when installed, is told.
set_result(f, r) ==
    /\ state' = [state EXCEPT ![f] = "FINISHED"]
    /\ outcome' = [outcome EXCEPT ![f] = r]
    /\ completed' = Append(completed, f)
    /\ waiter' = IF pc = "collect" THEN Append(waiter, f) ELSE waiter

\* (a slip: the worker logs its outcome itself)
job_return_logging(f, r) ==
    /\ set_result(f, r)
    /\ log_message("worker", r)

\* What a worker does with the value combine_audio_video returns.
job_return(f, r) ==
    /\ set_result(f, r)
    /\ UNCHANGED <<log, console>>

\* A job that raises: Future.set_exception.
job_raise(f) == job_return(f, Raised(f))

dispatcher_unchanged ==
    UNCHANGED <<subfolders, pc, folders, futures, finished, yielded, results>>

\* ----------------------------------------------------------------- the job
\* A worker thread of the pool takes the oldest queued folder and runs
\* combine_audio_video up to the call of get_duration(input_video), which starts
\* ffprobe (or fails to: OSError).
start(f) ==
    /\ state[f] = "PENDING"
    /\ \A g \in AllFolders : state[g] = "PENDING" => f <= g
    /\ Cardinality(running) < max_workers
    /\ \/ \* os.listdir(folder_path) raises
          /\ job_raise(f)
          /\ UNCHANGED <<files, result, alive, probes>>
       \/ \E listing \in listdir(f) :
            /\ files' = [files EXCEPT ![f] = Some(listing)]
            /\ IF missing_input(listing)
                 THEN /\ job_return(f, Skipped(f))
                      /\ UNCHANGED <<result, alive, probes>>
                 ELSE /\ probes' = [probes EXCEPT ![f] = @ + 1]
                      /\ \E run \in ProbeRuns :
                           /\ result' = [result EXCEPT ![f] = Some(run)]
                           /\ alive' = [alive EXCEPT ![f] =
                                          IF run.started THEN "ffprobe" ELSE NoProcess]
                      /\ state' = [state EXCEPT ![f] = "probe"]
                      /\ UNCHANGED <<outcome, completed, waiter, log, console>>
    /\ UNCHANGED <<duration, bar, line, out_time, returncode, output, pipe, writing, encodes>>
    /\ dispatcher_unchanged

\* The ffprobe run is over: get_duration returns, combine_audio_video checks the
\* duration and calls run_ffmpeg_with_progress, whose Popen starts ffmpeg (or
\* raises OSError) and which creates the bar.
probe_exit(f) ==
    /\ state[f] = "probe"
    /\ LET d == get_duration(value(result[f])) IN
       IF not_duration(d)
         THEN /\ job_return(f, FailedDuration(f))
              /\ alive' = [alive EXCEPT ![f] = NoProcess]
              /\ UNCHANGED <<duration, bar, out_time, encodes>>
         ELSE /\ duration' = [duration EXCEPT ![f] = d]
              /\ encodes' = [encodes EXCEPT ![f] = @ + 1]
              /\ \/ /\ job_raise(f)
                    /\ alive' = [alive EXCEPT ![f] = NoProcess]
                    /\ UNCHANGED <<bar, out_time>>
                 \/ /\ state' = [state EXCEPT ![f] = "read"]
                    /\ alive' = [alive EXCEPT ![f] = "ffmpeg"]
                    /\ bar' = [bar EXCEPT ![f] = Some(0)]
                    /\ out_time' = [out_time EXCEPT ![f] = Some(0)]
                    /\ UNCHANGED <<outcome, completed, waiter, log, console>>
    /\ result' = [result EXCEPT ![f] = None]
    /\ UNCHANGED <<files, line, returncode, output, pipe, writing, probes>>
    /\ dispatcher_unchanged

\* (a slip: the end of the stream is not looked for)
never_eof(l) == FALSE

\* if line == '': readline() returns '' at the end of the stream only
at_eof(l) == l = <<>>

\* One turn of the read loop of run_ffmpeg_with_progress:
\*   line = process.stdout.readline(), then the if / elif chain on it.
readline(f) ==
    /\ state[f] = "read"
    /\ \E l \in ProgressLines :
         IF at_eof(l)
           THEN /\ line' = [line EXCEPT ![f] = Some(l)]
                /\ state' = [state EXCEPT ![f] = "wait"]
                /\ UNCHANGED <<outcome, completed, waiter, log, console, bar, out_time>>
         ELSE IF startswith(l, <<"out_time_ms", "=">>)
           THEN IF is_int(split_eq_1(strip(l)))
                  THEN /\ line' = [line EXCEPT ![f] = Some(l)]
                       /\ out_time' = [out_time EXCEPT ![f] = Some(int(split_eq_1(strip(l))))]
                       /\ bar' = [bar EXCEPT ![f] =
                                Some(min(int(split_eq_1(strip(l))), value(duration[f])))]
                       /\ UNCHANGED <<state, outcome, completed, waiter, log, console>>
                  ELSE \* int() raises ValueError: the bar and the locals are
                       \* dropped with the frame, the process is left running
                       /\ job_raise(f)
                       /\ bar' = [bar EXCEPT ![f] = None]
                       /\ line' = [line EXCEPT ![f] = None]
                       /\ out_time' = [out_time EXCEPT ![f] = None]
         ELSE IF strip(l) = <<"progress", "=", "end">>
           THEN /\ line' = [line EXCEPT ![f] = Some(l)]
                /\ state' = [state EXCEPT ![f] = "wait"]
                /\ UNCHANGED <<outcome, completed, waiter, log, console, bar, out_time>>
         ELSE /\ line' = [line EXCEPT ![f] = Some(l)]
              /\ UNCHANGED <<state, outcome, completed, waiter, log, console, bar, out_time>>
    /\ UNCHANGED <<files, result, duration, returncode, alive, output, pipe, writing,
                   probes, encodes>>
    /\ dispatcher_unchanged

\* ffmpeg -y ... output_file: what an ffmpeg that exits with rc leaves at
\* output_file. With 0 it wrote the file, over the one that was there; with
\* another code it left what was there or an incomplete file.
ffmpeg_output(f, rc) == IF rc = 0 THEN {"written"} ELSE {output[f], "partial"}

\* The read loop is over and ffmpeg, whose standard output is still open (the
\* loop ended at progress=end, not at the end of the stream), writes one more
\* line: it goes into the pipe, which nothing reads any more, or, the pipe
\* being full, the write blocks.
ffmpeg_write(f) ==
    /\ state[f] = "wait"
    /\ line[f] # Some(<<>>)
    /\ ~writing[f]
    /\ IF pipe[f] < PipeCapacity
         THEN pipe' = [pipe EXCEPT ![f] = @ + 1] /\ UNCHANGED writing
         ELSE writing' = [writing EXCEPT ![f] = TRUE] /\ UNCHANGED pipe
    /\ UNCHANGED <<log, console, waiter, state, outcome, files, result, duration, bar,
                   line, out_time, returncode, alive, output, probes, encodes, completed>>
    /\ dispatcher_unchanged

\* (a slip: process.communicate(), which reads the pipe until the process ends)
process_exits_drained(f) == TRUE

\* process.wait() reads nothing: a process blocked in a write does not exit.
process_exits(f) == ~writing[f]

\* process.wait() returns: the bar is completed and closed, and the exit code
\* decides what combine_audio_video returns.
wait(f) ==
    /\ state[f] = "wait"
    /\ process_exits(f)
    /\ \E rc \in ExitCodes :
         /\ returncode' = [returncode EXCEPT ![f] = Some(rc)]
         /\ \E out \in ffmpeg_output(f, rc) : output' = [output EXCEPT ![f] = out]
         /\ job_return(f, IF rc = 0 THEN Combined(f) ELSE FailedIn(f))
    /\ bar' = [bar EXCEPT ![f] = duration[f]]
    /\ line' = [line EXCEPT ![f] = None]
    /\ out_time' = [out_time EXCEPT ![f] = None]
    /\ alive' = [alive EXCEPT ![f] = NoProcess]
    /\ pipe' = [pipe EXCEPT ![f] = 0]
    /\ writing' = [writing EXCEPT ![f] = FALSE]
    /\ UNCHANGED <<files, result, duration, probes, encodes>>
    /\ dispatcher_unchanged

\* An ffmpeg process whose worker raised in the read loop exits on its own.
abandoned_exit(f) ==
    /\ state[f] = "FINISHED"
    /\ alive[f] = "ffmpeg"
    /\ alive' = [alive EXCEPT ![f] = NoProcess]
    /\ \E rc \in ExitCodes :
         \E out \in ffmpeg_output(f, rc) : output' = [output EXCEPT ![f] = out]
    /\ UNCHANGED <<log, console, waiter, state, outcome, files, result, duration, bar,
                   line, out_time, returncode, pipe, writing, probes, encodes, completed>>
    /\ dispatcher_unchanged

Next ==
    \/ main_open
    \/ main_listdir
    \/ main_found
    \/ main_submit
    \/ main_as_completed
    \/ main_collect
    \/ main_exit_pool
    \/ main_unwind
    \/ main_banner
    \/ \E f \in AllFolders : start(f)
    \/ \E f \in AllFolders : probe_exit(f)
    \/ \E f \in AllFolders : readline(f)
    \/ \E f \in AllFolders : ffmpeg_write(f)
    \/ \E f \in AllFolders : wait(f)
    \/ \E f \in AllFolders : abandoned_exit(f)

Spec == Init /\ [][Next]_vars

SpecPool == InitPool /\ [][Next]_vars

SpecRerun == InitRerun /\ [][Next]_vars

\* A run in which the ffmpeg of the first folder hangs: it prints nothing and
\* never exits, so readline() of its worker never returns. No other ffmpeg
\* writes after progress=end.
hangs(f) == f = 1

NextHung ==
    \/ main_open
    \/ main_listdir
    \/ main_found
    \/ main_submit
    \/ main_as_completed
    \/ main_collect
    \/ main_exit_pool
    \/ main_unwind
    \/ main_banner
    \/ \E f \in AllFolders : start(f)
    \/ \E f \in AllFolders : probe_exit(f)
    \/ \E f \in AllFolders : ~hangs(f) /\ readline(f)
    \/ \E f \in AllFolders : ~hangs(f) /\ wait(f)
    \/ \E f \in AllFolders : abandoned_exit(f)

\* The threads are scheduled fairly: main and the workers go on whenever they
\* can. Every process but the hung one ends: its ffprobe exits, its progress
\* stream comes to an end, and the process exits.
FairHung ==
    /\ WF_vars(main_open) /\ WF_vars(main_listdir) /\ WF_vars(main_found)
    /\ WF_vars(main_submit) /\ WF_vars(main_as_completed) /\ WF_vars(main_collect)
    /\ WF_vars(main_exit_pool) /\ WF_vars(main_unwind) /\ WF_vars(main_banner)
    /\ \A f \in AllFolders :
         /\ WF_vars(start(f))
         /\ WF_vars(probe_exit(f))
         /\ WF_vars(~hangs(f) /\ readline(f) /\ state'[f] # "read")
         /\ WF_vars(~hangs(f) /\ wait(f))

SpecHung == InitPool /\ [][NextHung]_vars /\ FairHung

\* ------------------------------------------------------------- the claims
OutcomeTags == {"Skipped", "FailedDuration", "Combined", "FailedIn"}

\* main() is over: it returned, or an exception left it.
RunEnded == pc \in {"done", "crashed"}

Discovered == {folders[i] : i \in DOMAIN folders}

\* The positions of the log lines that give the outcome of folder f.
OutcomeLines(f) ==
    {i \in DOMAIN log : log[i].msg.tag \in OutcomeTags /\ log[i].msg.folder = f}

AllOutcomeLines == {i \in DOMAIN log : log[i].msg.tag \in OutcomeTags}

\* The positions in results of the outcomes of folder f.
Collected(f) == {i \in DOMAIN results : results[i].folder = f}

\* The listing of folder f was read and has both a video and an audio input.
HasInput(f, token) ==
    /\ files[f] # None
    /\ \E i \in DOMAIN value(files[f]) : matches(value(files[f])[i], token)

HasBothInputs(f) == HasInput(f, "video") /\ HasInput(f, "audio")

\* The listing of folder f was read and lacks the video or the audio input.
LacksAnInput(f) == files[f] # None /\ ~HasBothInputs(f)

\* C1: each discovered folder has at most one outcome at any time, and when the
\* run ends the number of collected outcomes and of outcome lines logged equals
\* the number of discovered subfolders.
C1_NoJobDroppedOrDuplicated ==
    /\ \A f \in AllFolders : Cardinality(Collected(f)) <= 1 /\ Cardinality(OutcomeLines(f)) <= 1
    /\ RunEnded => /\ Len(results) = Len(folders)
                   /\ Cardinality(AllOutcomeLines) = Len(folders)

\* C2: a folder that holds both a video and an audio input gets exactly one
\* outcome, and that outcome is Combined iff the encode process exited with 0.
C2_OneOutcomeSuccessIffExitZero ==
    RunEnded =>
        \A f \in Discovered :
            HasBothInputs(f) =>
                /\ Cardinality(Collected(f)) = 1
                /\ \A i \in Collected(f) : results[i] = Combined(f) <=> returncode[f] = Some(0)

\* C3: a folder whose listing lacks the video or the audio input is Skipped (the
\* job returns at once, and no other outcome of it is ever collected or logged),
\* and neither ffprobe nor ffmpeg is ever run for it.
C3_SkippedWithoutProcess ==
    \A f \in AllFolders :
        LacksAnInput(f) =>
            /\ state[f] = "FINISHED"
            /\ outcome[f] = Skipped(f)
            /\ \A i \in Collected(f) : results[i] = Skipped(f)
            /\ \A i \in OutcomeLines(f) : log[i].msg = Skipped(f)
            /\ probes[f] = 0
            /\ encodes[f] = 0
            /\ alive[f] = NoProcess

C3_Witness ==
    /\ pc = "done"
    /\ \E f \in Discovered :
         /\ LacksAnInput(f)
         /\ HasInput(f, "video")
         /\ OutcomeLines(f) # {}
    /\ \E f \in Discovered :
         /\ LacksAnInput(f)
         /\ HasInput(f, "audio")
         /\ OutcomeLines(f) # {}

\* C4: the ffprobe run of a folder failed: it could not be started, exited with
\* a non-zero code, printed nothing or printed something that is no number.
ProbeFailed(run) ==
    \/ ~run.started
    \/ run.returncode # 0
    \/ strip(run.stdout) = <<>>
    \/ strip(run.stdout) = <<"N/A">>

\* C4: when get_duration returns from a failed ffprobe run, the job does not
\* raise, its outcome is "Failed to get duration", and ffmpeg is not launched
\* for the folder, then or later.
C4_FailedProbeFailsJob ==
    /\ [][\A f \in AllFolders :
            (state[f] = "probe" /\ ProbeFailed(value(result[f])) /\ state'[f] # "probe") =>
                /\ state'[f] = "FINISHED"
                /\ outcome'[f] = FailedDuration(f)
                /\ encodes'[f] = 0]_vars
    /\ [](\A f \in AllFolders :
            outcome[f] = FailedDuration(f) => encodes[f] = 0 /\ alive[f] = NoProcess)

C4_Witness ==
    /\ pc = "done"
    /\ \E f \in Discovered : /\ OutcomeLines(f) # {}
                             /\ outcome[f] = FailedDuration(f)
                             /\ probes[f] = 1

\* C5: per-folder errors never abort the dispatcher: the run ends with the
\* closing banner written and with the outcome of every job that returned one
\* in the log.
C5_ErrorsContained ==
    RunEnded =>
        /\ pc = "done"
        /\ \E i \in DOMAIN log : log[i].msg = AllDone
        /\ \A f \in Discovered : outcome[f].tag \in OutcomeTags => OutcomeLines(f) # {}

\* C6: each update of a job's progress value is greater than or equal to the
\* previous value.
C6_ProgressNonDecreasing ==
    [][\A f \in AllFolders :
         (bar[f] # None /\ bar'[f] # None) => value(bar'[f]) >= value(bar[f])]_vars

\* C7: at most max_workers folders are being processed at any time, and at most
\* that many external processes are alive.
C7_AtMostPoolSizeProcesses ==
    /\ Cardinality(running) <= max_workers
    /\ Cardinality({f \in AllFolders : alive[f] # NoProcess}) <= max_workers

\* C8: every line of the log of this run was written by the dispatcher thread.
C8_OnlyMainWritesLog ==
    pc # "open" => \A i \in DOMAIN log : log[i].thread = "main"

C8_Witness ==
    /\ pc = "collect"
    /\ running # {}
    /\ AllOutcomeLines # {}

\* This step appends the outcome line of folder f to the log.
LoggedNow(f) ==
    /\ Len(log') = Len(log) + 1
    /\ log'[Len(log')].msg.tag \in OutcomeTags
    /\ log'[Len(log')].msg.folder = f

\* The job of g finished before the job of f, and main was handed neither yet.
FinishedBefore(g, f) ==
    \E i, j \in DOMAIN completed : i < j /\ completed[i] = g /\ completed[j] = f

\* C9 (as stated): outcomes are logged in completion order, the jobs that were
\* over before main started collecting included: when the outcome of a folder
\* is logged, no job that returned an outcome earlier is still to be logged.
C9_CompletionOrder ==
    [][\A f, g \in AllFolders :
         (LoggedNow(f) /\ FinishedBefore(g, f)) => outcome[g].tag \notin OutcomeTags]_vars

\* C9 (amended): the outcomes of the jobs that were over when main started
\* collecting are logged first (in any order); after them, the outcome logged
\* is always that of the job that finished first among those still to be handed
\* to main.
C9_CompletionOrderOnceCollecting ==
    [][\A f \in AllFolders :
         LoggedNow(f) =>
             IF finished # {} THEN f \in finished
             ELSE completed # <<>> /\ f = Head(completed)]_vars

C9_Witness ==
    /\ pc = "collect"
    /\ finished = {}
    /\ Len(waiter) = 2
    /\ waiter = completed
    /\ waiter[1] > waiter[2]
    /\ \A i \in DOMAIN waiter : outcome[waiter[i]].tag \in OutcomeTags

\* C10: the log of a run starts with the start banner (nothing of a previous
\* log is left); the closing banner is the last line whenever it is there, and
\* it is there only once every job is over and its outcome logged; in a run that
\* ended normally the log is the start banner, "Found N folders" with N the
\* number of discovered subfolders, one outcome line per folder, and the banner.
C10_LogOrder ==
    /\ pc # "open" => log # <<>> /\ log[1] = Line("main", StartBanner)
    /\ \A i \in DOMAIN log :
         (pc # "open" /\ log[i].msg = AllDone) =>
             /\ i = Len(log)
             /\ \A f \in Discovered : state[f] = "FINISHED" /\ \E j \in OutcomeLines(f) : j < i
    /\ pc = "done" =>
         /\ Len(log) = Len(folders) + 3
         /\ log[2].msg = Found(Len(folders))
         /\ \A i \in 3..(Len(log) - 1) : log[i].msg.tag \in OutcomeTags
         /\ \A f \in Discovered : Cardinality(OutcomeLines(f)) = 1
         /\ log[Len(log)].msg = AllDone

C10_Witness ==
    /\ pc = "done"
    /\ Len(folders) = MaxFolders
    /\ \E f \in Discovered : outcome[f] = Skipped(f)
    /\ \E f \in Discovered : outcome[f] = Combined(f)

\* The positions of the log lines that are about a folder.
JobLines == {i \in DOMAIN log : "folder" \in DOMAIN log[i].msg}

\* C11 (as stated): at every point of the run a job has its outcome line in the
\* log if, and only if, it has completed with an outcome.
C11_LogReflectsCompleted ==
    pc # "open" =>
        \A f \in AllFolders :
            (state[f] = "FINISHED" /\ outcome[f].tag \in OutcomeTags) <=> OutcomeLines(f) # {}

\* C11 (amended): at every point of the run each line of the log about a folder
\* is the outcome of a job that has completed, with the outcome it completed
\* with; a completed job may still be without its line.
C11_LogLinesOfCompletedJobs ==
    pc # "open" =>
        \A i \in JobLines :
            /\ log[i].msg.tag \in OutcomeTags
            /\ state[log[i].msg.folder] = "FINISHED"
            /\ outcome[log[i].msg.folder] = log[i].msg

C11_Witness ==
    \E f, g \in Discovered :
        /\ OutcomeLines(f) # {}
        /\ state[g] = "FINISHED"
        /\ outcome[g].tag \in OutcomeTags
        /\ OutcomeLines(g) = {}

\* C12: when the read loop meets the end of the stream without having read
\* progress=end, it ends without an error and the worker goes on to wait for
\* the process; when the process exits the job returns an outcome, which is
\* Combined iff the exit code is 0 and Failed otherwise.
C12_EndOfStreamEndsJob ==
    [][\A f \in AllFolders :
         /\ (state[f] = "read" /\ line'[f] = Some(<<>>)) =>
                /\ state'[f] = "wait"
                /\ outcome'[f] = NoResult(f)
         /\ (state[f] = "wait" /\ line[f] = Some(<<>>) /\ state'[f] # "wait") =>
                /\ state'[f] = "FINISHED"
                /\ returncode'[f] # None
                /\ outcome'[f] = IF returncode'[f] = Some(0) THEN Combined(f) ELSE FailedIn(f)
       ]_vars

C12_Witness ==
    \E f \in Discovered :
        /\ state[f] = "wait"
        /\ line[f] = Some(<<>>)
        /\ alive[f] = "ffmpeg"

\* C13: once the inputs of a folder are selected, the output path is neither
\* the path of the selected video input nor that of the selected audio input.
C13_OutputDistinctFromInputs ==
    \A f \in AllFolders :
        HasBothInputs(f) =>
            /\ output_file(f) # input_video(f)
            /\ output_file(f) # input_audio(f)

\* C14: in a second run over folders that an earlier run combined every one of,
\* the log is written anew (it starts with this run's banner and holds no line
\* of the earlier run); when the run ends the log has as many outcome lines as
\* the earlier run's, one per folder; and the combined file of every folder
\* combined again is the one this run wrote.
C14_RerunIdempotent ==
    /\ pc # "open" =>
         /\ log # <<>>
         /\ log[1] = Line("main", StartBanner)
         /\ \A i \in DOMAIN log : log[i].thread # "previous run"
    /\ RunEnded =>
         /\ Cardinality(AllOutcomeLines) = subfolders
         /\ \A f \in Discovered : outcome[f] = Combined(f) => output[f] = "written"

\* The log holds the closing banner of this run.
BannerLogged == pc # "open" /\ \E i \in DOMAIN log : log[i].msg = AllDone

\* The ffmpeg of folder h hangs, and its worker is in readline().
Hung(h) == hangs(h) /\ state[h] = "read"

\* Every folder but h was taken by a worker, its job is over, and the outcome
\* it returned, if any, is in the log.
OthersLogged(h) ==
    \A f \in Discovered \ {h} :
        /\ state[f] = "FINISHED"
        /\ outcome[f].tag \in OutcomeTags => OutcomeLines(f) # {}

\* C15: once the ffmpeg of one job hangs, the other worker goes on to take
\* every folder still queued and the outcome of every other job is eventually
\* in the log, while neither the outcome of the hung job nor the closing banner
\* is ever logged.
C15_HungJobBlocksOnlyItself ==
    \A h \in {g \in AllFolders : hangs(g)} :
        /\ Hung(h) ~> OthersLogged(h)
        /\ [](Hung(h) => (OutcomeLines(h) = {} /\ ~BannerLogged))

\* A line of the form out_time_ms=<integer>, and the line progress=end.
OutTimeLine(l) ==
    /\ Len(l) = 4
    /\ l[1] = "out_time_ms" /\ l[2] = "=" /\ l[3] \in IntLiterals /\ l[4] = "\n"

EndLine(l) == l = <<"progress", "=", "end", "\n">>

\* C16: no turn of the read loop fails; a turn that reads out_time_ms=<integer>
\* sets the elapsed time to that integer (of microseconds), a turn that reads
\* any other line leaves it as it was; the loop ends at progress=end (and at
\* the end of the stream) and at no other line, and once it has ended the
\* elapsed time does not change.
C16_ProgressParser ==
    [][\A f \in AllFolders :
         /\ state[f] = "read" =>
              /\ outcome'[f] # Raised(f)
              /\ (line'[f] # None /\ line'[f] # line[f]) =>
                    LET l == value(line'[f]) IN
                      /\ out_time'[f] = IF OutTimeLine(l) THEN Some(intValue(l[3]))
                                        ELSE out_time[f]
                      /\ state'[f] # "read" <=> (EndLine(l) \/ l = <<>>)
         /\ (state[f] = "wait" /\ state'[f] = "wait") => out_time'[f] = out_time[f]
       ]_vars

\* C17: the progress value of a job is never below 0 and never above the total
\* duration of the job.
C17_ProgressWithinBounds ==
    \A f \in AllFolders :
        bar[f] # None => 0 <= value(bar[f]) /\ value(bar[f]) <= value(duration[f])

\* C18: for each folder ffprobe is run at most once, and only for a folder whose
\* listing has both inputs; ffmpeg is launched at most once, and only after the
\* one ffprobe run is over and gave a duration; a job whose probe failed has no
\* ffmpeg launch; and once the job of a folder is over (a failed probe and a
\* failed encode included) no ffprobe or ffmpeg is run for it again.
C18_FixedOrderNoRetries ==
    /\ [](\A f \in AllFolders :
            /\ probes[f] <= 1
            /\ encodes[f] <= 1
            /\ probes[f] = 1 => HasBothInputs(f)
            /\ encodes[f] = 1 => /\ probes[f] = 1
                                 /\ state[f] # "probe"
                                 /\ duration[f] # None
            /\ outcome[f] = FailedDuration(f) => encodes[f] = 0)
    /\ [][\A f \in AllFolders :
            state[f] = "FINISHED" => probes'[f] = probes[f] /\ encodes'[f] = encodes[f]]_vars

C18_Witness ==
    /\ pc = "done"
    /\ \E f \in Discovered : /\ outcome[f] = FailedIn(f)
                             /\ returncode[f] = Some(1)
                             /\ probes[f] = 1
                             /\ encodes[f] = 1

\* C19: at every point of the run the messages written to the log are, in the
\* same order, the messages printed.
C19_LogMirrored ==
    pc # "open" => [i \in 1..Len(log) |-> log[i].msg] = console

\* C20: once the read loop has ended the worker reads nothing more (what ffmpeg
\* writes stays in the pipe); an ffmpeg that has filled the pipe and is blocked
\* in its next write stays blocked, so it never exits, its worker stays in
\* process.wait() and the job never has an outcome.
C20_WriterBlockedForever ==
    /\ [][\A f \in AllFolders :
            /\ (state[f] = "wait" /\ state'[f] = "wait") =>
                   pipe'[f] >= pipe[f] /\ line'[f] = line[f]
            /\ writing[f] => writing'[f]]_vars
    /\ [](\A f \in AllFolders :
            writing[f] => /\ pipe[f] = PipeCapacity
                          /\ line[f] = Some(<<"progress", "=", "end", "\n">>)
                          /\ state[f] = "wait"
                          /\ alive[f] = "ffmpeg"
                          /\ outcome[f] = NoResult(f)
                          /\ OutcomeLines(f) = {}
                          /\ ~RunEnded)

C20_Witness ==
    \E f, g \in Discovered :
        /\ writing[f]
        /\ pc = "collect"
        /\ OutcomeLines(g) # {}
====
